---- MODULE Spec2Model ----
(***************************************************************************)
(* The Streamlit marketing dashboard of app.py as a state machine.         *)
(*                                                                         *)
(* Streamlit runs the script top to bottom once per user interaction, in   *)
(* a fresh namespace: the only things that outlive a run are the uploaded  *)
(* file (the file_uploader's widget state), the default file on disk and   *)
(* the wall clock.  One run is the sequence                                *)
(*   Load -> FeatureEngineering -> DatasetTab -> CustomerTab ->            *)
(*   SpendingTab -> CampaignsTab -> ChatbotTab -> ScriptEnd                *)
(* and an uncaught exception in any of them ends the run at once.          *)
(*                                                                         *)
(* Representation.  A table is [bound, cols, rows]: rows is a sequence of  *)
(* functions from column name to cell.  Numeric cells are integers, the    *)
(* missing value is NaN; Income is a float column and is held in           *)
(* hundredths (IncomeScale), every other numeric column in units.          *)
(* Dt_Customer cells are the CSV's text, a sequence of characters.         *)
(***************************************************************************)
EXTENDS Integers, Sequences, FiniteSets, TLC

VARIABLES
    disk,           \* the folder whose CSV files the user can upload (see FilesOn)
    audit,          \* TRUE when the history variables lastGood and memo are kept
    uploaded_file,  \* <<>> (None) or <<file>>: the uploader's widget state
    today,          \* the wall clock, in days since 1970-01-01
    pc,             \* where the running script is, or "idle" between runs
    df,             \* the script's global df
    filtered_df,    \* the script's global filtered_df (Customer tab)
    spend_df,       \* the script's global spend_df (Spending tab)
    shown,          \* what the tab executed last has put on the page
    err,            \* the uncaught exception that ended the run, if any
    lastGood,       \* history: the last Table a run loaded and derived in full
    memo            \* history: one earlier chatbot answer, with its Table

vars == <<disk, audit, uploaded_file, today, pc, df, filtered_df, spend_df,
          shown, err, lastGood, memo>>

----------------------------------------------------------------------------
(* Bounds of the model. *)

\* most rows in a CSV file
MaxRows == 3

\* days the clock can advance past FirstDay
MaxDays == 1

----------------------------------------------------------------------------
(* Column lists. *)

product_cols ==
    <<"MntWines", "MntFruits", "MntMeatProducts", "MntFishProducts",
      "MntSweetProducts", "MntGoldProds">>

purchase_channels ==
    <<"NumWebPurchases", "NumCatalogPurchases", "NumStorePurchases">>

cmp_cols ==
    <<"AcceptedCmp1", "AcceptedCmp2", "AcceptedCmp3", "AcceptedCmp4",
      "AcceptedCmp5">>

Range(s) == {s[i] : i \in DOMAIN s}

\* the columns of a well-formed input file
RawCols ==
    {"age", "Income", "Dt_Customer", "Response", "NumWebVisitsMonth"}
        \cup Range(product_cols) \cup Range(purchase_channels)
        \cup Range(cmp_cols)

----------------------------------------------------------------------------
(* Numbers. *)

\* pandas' missing value in a numeric column
NaN == -1

IsNaN(x) == x = NaN

\* Income cells are floats: the model holds them in hundredths
IncomeScale == 100

\* Python int(x) of the float num/den (den > 0): truncation toward zero
IntOfRatio(num, den) ==
    IF num >= 0 THEN num \div den ELSE -((-num) \div den)

\* round(num/den), ties to even: Python's round(x, 2) and the :.2f format,
\* with num/den already scaled by 100
RoundRatio(num, den) ==
    LET q == num \div den
        r == num % den
    IN  IF 2 * r < den THEN q
        ELSE IF 2 * r > den THEN q + 1
        ELSE IF q % 2 = 0 THEN q ELSE q + 1

RECURSIVE SumSeq(_)
SumSeq(s) == IF s = <<>> THEN 0 ELSE Head(s) + SumSeq(Tail(s))

\* the sequence s without its NaN entries
RECURSIVE DropNaN(_)
DropNaN(s) ==
    IF s = <<>> THEN <<>>
    ELSE IF IsNaN(Head(s)) THEN DropNaN(Tail(s))
    ELSE <<Head(s)>> \o DropNaN(Tail(s))

SetMin(S) == CHOOSE x \in S : \A y \in S : x <= y
SetMax(S) == CHOOSE x \in S : \A y \in S : x >= y

----------------------------------------------------------------------------
(* Tables. *)

Unbound == [bound |-> FALSE, cols |-> {}, rows |-> <<>>]

Table(cols, rows) == [bound |-> TRUE, cols |-> cols, rows |-> rows]

\* df[col] as a sequence of cells
Column(t, col) == [i \in DOMAIN t.rows |-> t.rows[i][col]]

\* df[col] = values: a new or replaced column
WithColumn(t, col, values) ==
    [t EXCEPT !.cols = @ \cup {col},
              !.rows = [i \in DOMAIN @ |->
                          [c \in (DOMAIN @[i]) \cup {col} |->
                              IF c = col THEN values[i] ELSE @[i][c]]]]

\* Series.sum(): NaN is skipped, the empty sum is 0
ColSum(t, col) == SumSeq(DropNaN(Column(t, col)))

\* the number of values Series.mean() averages
ColCount(t, col) == Len(DropNaN(Column(t, col)))

\* df[cols].sum(axis=1): per row, NaN skipped
RowSum(row, cols) == SumSeq(DropNaN([i \in DOMAIN cols |-> row[cols[i]]]))

----------------------------------------------------------------------------
(* Dates: pd.to_datetime on the CSV's text, and the calendar. *)

DigitVal ==
    ("0" :> 0) @@ ("1" :> 1) @@ ("2" :> 2) @@ ("3" :> 3) @@ ("4" :> 4) @@
    ("5" :> 5) @@ ("6" :> 6) @@ ("7" :> 7) @@ ("8" :> 8) @@ ("9" :> 9)

IsDigit(c) == c \in DOMAIN DigitVal

IsLeap(y) == (y % 4 = 0 /\ y % 100 # 0) \/ y % 400 = 0

DaysInMonth(y, m) ==
    IF m = 2 THEN (IF IsLeap(y) THEN 29 ELSE 28)
    ELSE IF m \in {4, 6, 9, 11} THEN 30 ELSE 31

\* the text has the shape YYYY-MM-DD
IsIsoShape(s) ==
    /\ Len(s) = 10
    /\ s[5] = "-" /\ s[8] = "-"
    /\ \A i \in {1, 2, 3, 4, 6, 7, 9, 10} : IsDigit(s[i])

IsoYear(s) ==
    1000 * DigitVal[s[1]] + 100 * DigitVal[s[2]] + 10 * DigitVal[s[3]]
        + DigitVal[s[4]]
IsoMonth(s) == 10 * DigitVal[s[6]] + DigitVal[s[7]]
IsoDay(s) == 10 * DigitVal[s[9]] + DigitVal[s[10]]

\* pd.to_datetime accepts the cell (anything else raises ValueError)
Parseable(s) ==
    /\ IsIsoShape(s)
    /\ IsoMonth(s) \in 1..12
    /\ IsoDay(s) \in 1..DaysInMonth(IsoYear(s), IsoMonth(s))

\* pd.to_datetime of a parseable cell
ToDatetime(s) == [year |-> IsoYear(s), month |-> IsoMonth(s), day |-> IsoDay(s)]

\* days from 1970-01-01 to the civil date (proleptic Gregorian), year >= 0
DaysFromCivil(y, m, d) ==
    LET yy  == IF m <= 2 THEN y - 1 ELSE y
        era == yy \div 400
        yoe == yy - era * 400
        mp  == IF m > 2 THEN m - 3 ELSE m + 9
        doy == (153 * mp + 2) \div 5 + d - 1
        doe == yoe * 365 + yoe \div 4 - yoe \div 100 + doy
    IN  era * 146097 + doe - 719468

\* (pd.to_datetime("today") - date).dt.days: whole days, the time of day dropped
DaysSince(now, date) == now - DaysFromCivil(date.year, date.month, date.day)

\* the first day of the model's clock: 2023-10-12
FirstDay == DaysFromCivil(2023, 10, 12)

----------------------------------------------------------------------------
(* Feature engineering, one statement at a time. *)

\* df["Join_Year"] = pd.to_datetime(df["Dt_Customer"]).dt.year
AddJoinYear(t) ==
    WithColumn(t, "Join_Year",
        [i \in DOMAIN t.rows |-> ToDatetime(t.rows[i]["Dt_Customer"]).year])

\* df["Join_Month"] = pd.to_datetime(df["Dt_Customer"]).dt.month
AddJoinMonth(t) ==
    WithColumn(t, "Join_Month",
        [i \in DOMAIN t.rows |-> ToDatetime(t.rows[i]["Dt_Customer"]).month])

\* a Total_Spend that leaves the last product column out
AddTotalSpend_SkipsGold(t) ==
    WithColumn(t, "Total_Spend",
        [i \in DOMAIN t.rows |-> RowSum(t.rows[i], SubSeq(product_cols, 1, 5))])

\* df["Total_Spend"] = df[product_cols].sum(axis=1)
AddTotalSpend(t) ==
    WithColumn(t, "Total_Spend",
        [i \in DOMAIN t.rows |-> RowSum(t.rows[i], product_cols)])

\* a Campaign_Accepted_Count that leaves the last campaign out
AddCampaignAcceptedCount_SkipsCmp5(t) ==
    WithColumn(t, "Campaign_Accepted_Count",
        [i \in DOMAIN t.rows |-> RowSum(t.rows[i], SubSeq(cmp_cols, 1, 4))])

\* df["Campaign_Accepted_Count"] = df[cmp_cols].sum(axis=1)
AddCampaignAcceptedCount(t) ==
    WithColumn(t, "Campaign_Accepted_Count",
        [i \in DOMAIN t.rows |-> RowSum(t.rows[i], cmp_cols)])

DerivedCols == {"Join_Year", "Join_Month", "Total_Spend", "Campaign_Accepted_Count"}

\* a script whose tabs come before the feature engineering
AfterLoad_SkipsDerivation == "tab1"

\* where the script goes after df = load_data(...)
AfterLoad == "derive"

----------------------------------------------------------------------------
(* Sorting, grouping and the descriptive statistics the tabs use. *)

\* a Series as parallel sequences: the index labels and the values
Series(names, values) == [names |-> names, values |-> values]

\* df[cols].sum(): one total per column, in the order of cols
ColumnTotals(t, cols) ==
    Series(cols, [i \in DOMAIN cols |-> ColSum(t, cols[i])])

\* the positions 1..n of a Series ordered by value, largest first; equal
\* values keep their original order
RECURSIVE OrderDescending(_, _)
OrderDescending(values, n) ==
    IF n = 0 THEN <<>>
    ELSE LET before == OrderDescending(values, n - 1)
             k == Cardinality({j \in DOMAIN before :
                                  values[before[j]] >= values[n]})
         IN  SubSeq(before, 1, k) \o <<n>> \o SubSeq(before, k + 1, Len(before))

\* Series.sort_values(ascending=False)
SortValuesDescending(ser) ==
    LET order == OrderDescending(ser.values, Len(ser.values))
    IN  Series([i \in DOMAIN order |-> ser.names[order[i]]],
               [i \in DOMAIN order |-> ser.values[order[i]]])

\* df[cols].mean().idxmax(): the first column whose mean is the largest.
\* Means are compared as fractions sum/count (count > 0 for every column of a
\* table that reaches the chatbot).
IdxMaxMean(t, cols) ==
    LET MeanGeq(a, b) ==
            ColSum(t, a) * ColCount(t, b) >= ColSum(t, b) * ColCount(t, a)
        best == {i \in DOMAIN cols : \A j \in DOMAIN cols : MeanGeq(cols[i], cols[j])}
    IN  cols[SetMin(best)]

\* a set of integers as an ascending sequence
RECURSIVE Ascending(_)
Ascending(S) ==
    IF S = {} THEN <<>>
    ELSE LET m == SetMin(S) IN <<m>> \o Ascending(S \ {m})

\* a mode that lists the most frequent values in the order of the rows
Mode_FirstSeen(s) ==
    LET present == DropNaN(s)
        vals == Range(present)
        Freq(v) == Cardinality({i \in DOMAIN present : present[i] = v})
        top == {v \in vals : \A w \in vals : Freq(v) >= Freq(w)}
        firsts == Ascending({SetMin({i \in DOMAIN present : present[i] = v}) : v \in top})
    IN  [k \in DOMAIN firsts |-> present[firsts[k]]]

\* Series.mode(): the values of the highest frequency (NaN dropped), ascending
Mode(s) ==
    LET present == DropNaN(s)
        vals == Range(present)
        Freq(v) == Cardinality({i \in DOMAIN present : present[i] = v})
        top == {v \in vals : \A w \in vals : Freq(v) >= Freq(w)}
    IN  Ascending(top)

\* a key order that compares the month before the year
KeyLess_MonthFirst(a, b) == a[2] < b[2] \/ (a[2] = b[2] /\ a[1] < b[1])

\* the order of groupby's keys (sort=True): by Join_Year, then Join_Month
KeyLess(a, b) == a[1] < b[1] \/ (a[1] = b[1] /\ a[2] < b[2])

RECURSIVE SortKeys(_)
SortKeys(S) ==
    IF S = {} THEN <<>>
    ELSE LET k == CHOOSE x \in S : \A y \in S \ {x} : KeyLess(x, y)
         IN  <<k>> \o SortKeys(S \ {k})

\* the group keys groupby(["Join_Year", "Join_Month"]) finds in the table
GroupKeys(t) ==
    {<<t.rows[i]["Join_Year"], t.rows[i]["Join_Month"]>> : i \in DOMAIN t.rows}

\* spend_df.groupby(["Join_Year", "Join_Month"])["Total_Spend"].sum()
\*     .reset_index(), then the Join_Date column (the first of the month)
GroupBySum(t) ==
    LET keys == SortKeys(GroupKeys(t))
        Members(k) == SelectSeq(t.rows,
            LAMBDA r : r["Join_Year"] = k[1] /\ r["Join_Month"] = k[2])
    IN  [i \in DOMAIN keys |->
            [Join_Year   |-> keys[i][1],
             Join_Month  |-> keys[i][2],
             Total_Spend |-> SumSeq(DropNaN(
                 [j \in DOMAIN Members(keys[i]) |->
                     Members(keys[i])[j]["Total_Spend"]])),
             Join_Date   |-> [year |-> keys[i][1], month |-> keys[i][2],
                              day |-> 1]]]

\* df[(df[col] >= lo) & (df[col] <= hi)]: NaN compares False; a new table
FilterRange(t, col, lo, hi) ==
    Table(t.cols,
          SelectSeq(t.rows,
              LAMBDA r : ~IsNaN(r[col]) /\ r[col] >= lo /\ r[col] <= hi))

\* the number of rows for which (df[col] > bound) is True
CountAbove(t, col, bound) ==
    Len(SelectSeq(t.rows, LAMBDA r : ~IsNaN(r[col]) /\ r[col] > bound))

----------------------------------------------------------------------------
(* Input files.  A file is [cols, rows]; read_csv has already typed the     *)
(* numeric cells, Dt_Customer is still text.                                *)

IndexOf(seq, x) == CHOOSE i \in DOMAIN seq : seq[i] = x

MkRow(age, income, dt, spend, flags, chan, resp, visits) ==
    [c \in RawCols |->
        IF c = "age" THEN age
        ELSE IF c = "Income" THEN income
        ELSE IF c = "Dt_Customer" THEN dt
        ELSE IF c = "Response" THEN resp
        ELSE IF c = "NumWebVisitsMonth" THEN visits
        ELSE IF c \in Range(product_cols) THEN spend[IndexOf(product_cols, c)]
        ELSE IF c \in Range(cmp_cols) THEN flags[IndexOf(cmp_cols, c)]
        ELSE chan[IndexOf(purchase_channels, c)]]

File(cols, rows) == [cols |-> cols, rows |-> rows]

\* every file of at most n rows drawn from pool, with the full header
Files(pool, n) ==
    UNION {{File(RawCols, rows) : rows \in [1..k -> pool]} : k \in 0..n}

Date_2020_12_31 == <<"2", "0", "2", "0", "-", "1", "2", "-", "3", "1">>
Date_2021_01_15 == <<"2", "0", "2", "1", "-", "0", "1", "-", "1", "5">>
Date_2021_01_20 == <<"2", "0", "2", "1", "-", "0", "1", "-", "2", "0">>
Date_2021_03_02 == <<"2", "0", "2", "1", "-", "0", "3", "-", "0", "2">>
Date_Unknown    == <<"u", "n", "k", "n", "o", "w", "n">>

\* customers of the main specification: two share an age; the smallest and
\* the largest Income (20000.50, 60000.50) are not whole, one Income is missing
Customer_A ==
    MkRow(25, 2000050, Date_2020_12_31, <<100, 10, 20, 5, 5, 10>>,
          <<1, 0, 1, 0, 0>>, <<4, 1, 2>>, 1, 5)
Customer_B ==
    MkRow(40, 6000050, Date_2021_01_15, <<60, 0, 40, 0, 0, 0>>,
          <<0, 0, 0, 0, 0>>, <<1, 1, 6>>, 0, 2)
Customer_C ==
    MkRow(40, 3500000, Date_2021_03_02, <<0, 50, 0, 0, 0, 0>>,
          <<0, 0, 0, 0, 1>>, <<0, 3, 3>>, 0, 7)
Customer_D ==
    MkRow(33, NaN, Date_2021_01_20, <<200, 0, 0, 0, 0, 0>>,
          <<1, 1, 0, 0, 0>>, <<2, 0, 1>>, 1, 1)

\* a customer whose Dt_Customer is no date
Customer_BadDate ==
    MkRow(25, 3000000, Date_Unknown, <<1, 1, 1, 1, 1, 1>>,
          <<0, 0, 0, 0, 0>>, <<1, 1, 1>>, 0, 1)

MainPool == {Customer_A, Customer_B, Customer_C, Customer_D}

\* a file of zero bytes: no header
EmptyFile == File({}, <<>>)

\* a file whose header lacks one product column
NoGoldFile ==
    File(RawCols \ {"MntGoldProds"},
         <<[c \in RawCols \ {"MntGoldProds"} |-> Customer_C[c]]>>)

\* a file whose second row has an unparseable Dt_Customer
BadDateFile == File(RawCols, <<Customer_C, Customer_BadDate>>)

MalformedFiles == {EmptyFile, NoGoldFile, BadDateFile}

MainDisk == Files(MainPool, MaxRows) \cup MalformedFiles

\* customers of the derivation specification: rows that spend nothing, on the
\* first or on the last product column only, or on all six; flag patterns with
\* 0, 1, 2 and 5 acceptances
SpendPatterns ==
    {<<0, 0, 0, 0, 0, 0>>, <<7, 0, 0, 0, 0, 0>>, <<0, 0, 0, 0, 0, 4>>}

FlagPatterns ==
    {<<0, 0, 0, 0, 0>>, <<1, 0, 1, 0, 0>>, <<0, 0, 0, 0, 1>>, <<1, 1, 1, 1, 1>>}

DerivePool ==
    {MkRow(40, 6000000, Date_2021_01_15, sp, <<1, 0, 1, 0, 0>>, <<1, 1, 6>>, 0, 2)
        : sp \in SpendPatterns}
    \cup
    {MkRow(25, 3500000, Date_2020_12_31, <<100, 10, 20, 5, 5, 10>>, fl,
           <<1, 1, 6>>, 0, 2)
        : fl \in FlagPatterns}

DeriveDisk == Files(DerivePool, MaxRows - 1)

\* customers of the history specification
HistoryPool == {Customer_A, Customer_B}

HistoryDisk == Files(HistoryPool, MaxRows - 1) \cup MalformedFiles

\* the files of each folder the model's user uploads from
FilesOn(folder) ==
    IF folder = "main" THEN MainDisk
    ELSE IF folder = "derive" THEN DeriveDisk
    ELSE HistoryDisk

\* clean_data.csv, the file read when nothing is uploaded
clean_data == File(RawCols, <<Customer_A, Customer_B, Customer_C>>)

----------------------------------------------------------------------------
(* Shapes of the state. *)

NoAnswer == [text |-> <<>>, nums |-> <<>>]

Blank ==
    [tab |-> "", range |-> <<>>, kpi |-> <<>>, totals |-> Series(<<>>, <<>>),
     channels |-> Series(<<>>, <<>>), time_df |-> <<>>, frame |-> <<>>,
     question |-> "",
     pressed |-> FALSE, answer |-> NoAnswer]

NoError == [line |-> 0, exc |-> ""]

Raised(line, exc) == [line |-> line, exc |-> exc]

NoMemo == [set |-> FALSE, table |-> Unbound, question |-> "", answer |-> NoAnswer]

----------------------------------------------------------------------------
(* Widgets. *)

\* rows shown by df.head()
HeadRows == 5

\* the values the model's user can drag a slider handle to, besides its ends
AgeTicks == {30}
IncomeTicks == {35000}

\* the Income slider's initial value
DefaultIncomeRange == <<20000, 60000>>

\* the product types the model's user picks in the Spending selectbox
SelectableProducts == {product_cols[1], product_cols[6]}

\* st.slider returns a pair lo <= hi within its bounds
SliderRanges(min_value, max_value, ticks) ==
    LET stops == {min_value, max_value}
                    \cup {x \in ticks : min_value <= x /\ x <= max_value}
    IN  {r \in stops \X stops : r[1] <= r[2]}

Questions ==
    <<"What is the most common age among customers?",
      "How many total customers are in the dataset?",
      "What is the average customer income?",
      "What is the total and average spend per customer?",
      "Which product category has the highest average spend?",
      "How much is spent on each product type?",
      "Which purchase channel is most preferred?",
      "How many purchases occurred through each channel?",
      "What is the average number of website visits per month?",
      "What is the overall response rate to campaigns?",
      "How many customers accepted more than one campaign?",
      "How many responses were there for each campaign?",
      "How many customers are old vs new based on 1000 days?">>

\* the threshold of the old-vs-new question
OldCustomerDays == 1000

----------------------------------------------------------------------------
(* The script, statement group by statement group. *)

\* the file load_data reads: the upload if there is one, else clean_data.csv
CurrentFile == IF uploaded_file # <<>> THEN uploaded_file[1] ELSE clean_data

\* pd.read_csv(file)
ReadCsv(file) ==
    IF file.cols = {}
    THEN [df |-> Unbound, err |-> Raised(43, "EmptyDataError")]
    ELSE [df |-> Table(file.cols, file.rows), err |-> NoError]

\* lines 59-62 on table t: the table as the statements leave it, and the
\* exception that stopped them, if any
Derive(t) ==
    IF "Dt_Customer" \notin t.cols
    THEN [df |-> t, err |-> Raised(59, "KeyError")]
    ELSE IF \E i \in DOMAIN t.rows : ~Parseable(t.rows[i]["Dt_Customer"])
    THEN [df |-> t, err |-> Raised(59, "ValueError")]
    ELSE LET t2 == AddJoinMonth(AddJoinYear(t)) IN
         IF ~(Range(product_cols) \subseteq t2.cols)
         THEN [df |-> t2, err |-> Raised(61, "KeyError")]
         ELSE LET t3 == AddTotalSpend(t2) IN
              IF ~(Range(cmp_cols) \subseteq t3.cols)
              THEN [df |-> t3, err |-> Raised(62, "KeyError")]
              ELSE [df |-> AddCampaignAcceptedCount(t3), err |-> NoError]

\* df[col].mean() as int(...): the KPI value, given that the mean is a number
IntMean(t, col, scale) == IntOfRatio(ColSum(t, col), ColCount(t, col) * scale)

\* the Customer tab's three KPIs on filtered_df (Income has a value in it)
CustomerKpis(f) ==
    <<Len(f.rows),
      IntMean(f, "Income", IncomeScale),
      RoundRatio(CountAbove(f, "Campaign_Accepted_Count", 0) * 10000, Len(f.rows))>>

\* the Spending tab's two KPIs on spend_df (not empty)
SpendingKpis(sdf) ==
    <<ColSum(sdf, "Total_Spend"), IntMean(sdf, "Total_Spend", 1)>>

\* the Campaigns tab's two KPIs on filtered_df
CampaignKpis(f) ==
    <<SumSeq(ColumnTotals(f, cmp_cols).values),
      CountAbove(f, "Campaign_Accepted_Count", 0)>>

\* lines 164-165: the two columns the Campaigns tab adds to filtered_df
WithResponseColumns(f) ==
    LET f1 == WithColumn(f, "Total_Channel_Purchases",
                  [i \in DOMAIN f.rows |-> RowSum(f.rows[i], purchase_channels)])
    IN  WithColumn(f1, "Responded",
            [i \in DOMAIN f1.rows |->
                IF f1.rows[i]["Campaign_Accepted_Count"] > 0 THEN "Yes" ELSE "No"])

\* line 219: df['Customer_Since_Days']
WithCustomerSinceDays(t, now) ==
    WithColumn(t, "Customer_Since_Days",
        [i \in DOMAIN t.rows |-> DaysSince(now, ToDatetime(t.rows[i]["Dt_Customer"]))])

AsAnswer(ser) == [text |-> ser.names, nums |-> ser.values]

\* the chatbot's answer to question q on table t at time now: the names and
\* the numbers the answer's text is formatted from
Answer(t, q, now) ==
    IF q = Questions[1] THEN [text |-> <<>>, nums |-> <<Mode(Column(t, "age"))[1]>>]
    ELSE IF q = Questions[2] THEN [text |-> <<>>, nums |-> <<Len(t.rows)>>]
    ELSE IF q = Questions[3]
        THEN [text |-> <<>>, nums |-> <<IntMean(t, "Income", IncomeScale)>>]
    ELSE IF q = Questions[4]
        THEN [text |-> <<>>,
              nums |-> <<ColSum(t, "Total_Spend"), IntMean(t, "Total_Spend", 1)>>]
    ELSE IF q = Questions[5]
        THEN [text |-> <<IdxMaxMean(t, product_cols)>>, nums |-> <<>>]
    ELSE IF q = Questions[6]
        THEN AsAnswer(SortValuesDescending(ColumnTotals(t, product_cols)))
    ELSE IF q = Questions[7]
        THEN [text |-> <<IdxMaxMean(t, purchase_channels)>>, nums |-> <<>>]
    ELSE IF q = Questions[8]
        THEN AsAnswer(SortValuesDescending(ColumnTotals(t, purchase_channels)))
    ELSE IF q = Questions[9]
        THEN [text |-> <<>>,
              nums |-> <<RoundRatio(ColSum(t, "NumWebVisitsMonth") * 100,
                                    ColCount(t, "NumWebVisitsMonth"))>>]
    ELSE IF q = Questions[10]
        THEN [text |-> <<>>,
              nums |-> <<RoundRatio(ColSum(t, "Response") * 10000,
                                    ColCount(t, "Response"))>>]
    ELSE IF q = Questions[11]
        THEN [text |-> <<>>, nums |-> <<CountAbove(t, "Campaign_Accepted_Count", 1)>>]
    ELSE IF q = Questions[12]
        THEN AsAnswer(SortValuesDescending(ColumnTotals(t, cmp_cols)))
    ELSE LET since == WithCustomerSinceDays(t, now)
         IN  [text |-> <<>>,
              nums |-> <<CountAbove(since, "Customer_Since_Days", OldCustomerDays),
                         Len(since.rows)
                            - CountAbove(since, "Customer_Since_Days", OldCustomerDays)>>]

\* df after the chatbot has answered q
DfAfterAnswer(t, q, now) ==
    IF q = Questions[13] THEN WithCustomerSinceDays(t, now) ELSE t

----------------------------------------------------------------------------
(* Actions. *)

\* lines 46-51: df = load_data(uploaded_file or "clean_data.csv")
Load ==
    /\ pc = "load"
    /\ LET res == ReadCsv(CurrentFile)
       IN  /\ df' = res.df
           /\ err' = res.err
           /\ pc' = IF res.err = NoError THEN AfterLoad ELSE "error"
    /\ UNCHANGED <<disk, audit, uploaded_file, today, filtered_df, spend_df,
                   shown, lastGood, memo>>

\* lines 59-62: the four derived columns
FeatureEngineering ==
    /\ pc = "derive"
    /\ LET res == Derive(df)
       IN  /\ df' = res.df
           /\ err' = res.err
           /\ pc' = IF res.err = NoError THEN "tab1" ELSE "error"
           /\ lastGood' = IF audit /\ res.err = NoError THEN res.df ELSE lastGood
    /\ UNCHANGED <<disk, audit, uploaded_file, today, filtered_df, spend_df,
                   shown, memo>>

\* lines 68-77, with the search box left empty: st.dataframe(df.head())
DatasetTab ==
    /\ pc = "tab1"
    /\ shown' = [Blank EXCEPT
                    !.tab = "Dataset",
                    !.frame = SubSeq(df.rows, 1,
                        IF Len(df.rows) < HeadRows THEN Len(df.rows) ELSE HeadRows)]
    /\ pc' = "tab2"
    /\ UNCHANGED <<disk, audit, uploaded_file, today, df, filtered_df, spend_df,
                   err, lastGood, memo>>

\* lines 80-89: the age slider, filtered_df and the three KPIs
CustomerTab ==
    /\ pc = "tab2"
    /\ LET ages == DropNaN(Column(df, "age")) IN
       IF ages = <<>>
       THEN \* int(df["age"].min()) of NaN
            /\ err' = Raised(82, "ValueError")
            /\ pc' = "error"
            /\ UNCHANGED <<filtered_df, shown>>
       ELSE LET min_age == SetMin(Range(ages))
                max_age == SetMax(Range(ages))
            IN  \E age_range \in SliderRanges(min_age, max_age, AgeTicks) :
                   LET f == FilterRange(df, "age", age_range[1], age_range[2]) IN
                   /\ filtered_df' = f
                   /\ IF ColCount(f, "Income") = 0
                      THEN \* int(filtered_df['Income'].mean()) of NaN
                           /\ err' = Raised(87, "ValueError")
                           /\ pc' = "error"
                           /\ shown' = shown
                      ELSE /\ shown' = [Blank EXCEPT !.tab = "Customer",
                                                     !.range = age_range,
                                                     !.kpi = CustomerKpis(f)]
                           /\ pc' = "tab3"
                           /\ err' = err
    /\ UNCHANGED <<disk, audit, uploaded_file, today, df, spend_df, lastGood, memo>>

\* lines 113-138: the Income slider, spend_df, the two KPIs, the totals per
\* product and the spend over time.  st.slider widens its bounds to hold the
\* initial value, so the user's range lies within the widened bounds.
SpendingTab ==
    /\ pc = "tab3"
    /\ LET incomes == DropNaN(Column(df, "Income")) IN
       IF incomes = <<>>
       THEN \* int(df["Income"].min()) of NaN
            /\ err' = Raised(115, "ValueError")
            /\ pc' = "error"
            /\ UNCHANGED <<spend_df, shown>>
       ELSE LET min_income == IntOfRatio(SetMin(Range(incomes)), IncomeScale)
                max_income == IntOfRatio(SetMax(Range(incomes)), IncomeScale)
                lowest  == SetMin({min_income, DefaultIncomeRange[1]})
                highest == SetMax({max_income, DefaultIncomeRange[2]})
                ticks == IncomeTicks \cup {min_income, max_income}
                            \cup Range(DefaultIncomeRange)
            IN  \E income_range \in SliderRanges(lowest, highest, ticks),
                   selected_product \in SelectableProducts :
                   LET sub == FilterRange(df, "Income",
                                  income_range[1] * IncomeScale,
                                  income_range[2] * IncomeScale)
                       sdf == WithColumn(sub, "Selected_Product_Spend",
                                  Column(sub, selected_product))
                   IN  /\ spend_df' = sdf
                       /\ IF ColCount(sdf, "Total_Spend") = 0
                          THEN \* int(spend_df['Total_Spend'].mean()) of NaN
                               /\ err' = Raised(122, "ValueError")
                               /\ pc' = "error"
                               /\ shown' = shown
                          ELSE /\ shown' =
                                    [Blank EXCEPT
                                        !.tab = "Spending",
                                        !.range = income_range,
                                        !.kpi = SpendingKpis(sdf),
                                        !.totals = SortValuesDescending(
                                            ColumnTotals(sdf, product_cols)),
                                        !.time_df = GroupBySum(sdf)]
                               /\ pc' = "tab4"
                               /\ err' = err
    /\ UNCHANGED <<disk, audit, uploaded_file, today, df, filtered_df, lastGood, memo>>

\* lines 146-168: the campaign KPIs and totals, and two columns on filtered_df
CampaignsTab ==
    /\ pc = "tab4"
    /\ shown' = [Blank EXCEPT
                    !.tab = "Campaigns",
                    !.kpi = CampaignKpis(filtered_df),
                    !.totals = ColumnTotals(df, cmp_cols),
                    !.channels = SortValuesDescending(
                        ColumnTotals(filtered_df, purchase_channels))]
    /\ filtered_df' = WithResponseColumns(filtered_df)
    /\ pc' = "tab5"
    /\ UNCHANGED <<disk, audit, uploaded_file, today, df, spend_df, err,
                   lastGood, memo>>

\* lines 171-222: the Get Answer button is pressed for the question selected,
\* or it is not and the tab shows no answer
ChatbotTab ==
    /\ pc = "tab5"
    /\ \E i \in 0..Len(Questions) :
          LET pressed == i > 0
              question == IF pressed THEN Questions[i] ELSE ""
              answer == IF pressed THEN Answer(df, question, today) ELSE NoAnswer
          IN  /\ shown' = [Blank EXCEPT !.tab = "Chatbot",
                                        !.question = question,
                                        !.pressed = pressed,
                                        !.answer = answer]
              /\ df' = IF pressed THEN DfAfterAnswer(df, question, today) ELSE df
              /\ memo' \in IF audit /\ pressed
                           THEN {memo, [set |-> TRUE, table |-> df,
                                        question |-> question, answer |-> answer]}
                           ELSE {memo}
    /\ pc' = "done"
    /\ UNCHANGED <<disk, audit, uploaded_file, today, filtered_df, spend_df, err,
                   lastGood>>

\* the run is over (to its end, or stopped by an exception): its namespace
\* is gone, and the page waits for the user
ScriptEnd ==
    /\ pc \in {"done", "error"}
    /\ pc' = "idle"
    /\ df' = Unbound
    /\ filtered_df' = Unbound
    /\ spend_df' = Unbound
    /\ shown' = Blank
    /\ err' = NoError
    /\ UNCHANGED <<disk, audit, uploaded_file, today, lastGood, memo>>

\* the user uploads a file: a new run
Upload ==
    /\ pc = "idle"
    /\ \E f \in FilesOn(disk) : uploaded_file' = <<f>>
    /\ pc' = "load"
    /\ UNCHANGED <<disk, audit, today, df, filtered_df, spend_df, shown, err,
                   lastGood, memo>>

\* the user removes the uploaded file: a new run on clean_data.csv
RemoveUpload ==
    /\ pc = "idle"
    /\ uploaded_file # <<>>
    /\ uploaded_file' = <<>>
    /\ pc' = "load"
    /\ UNCHANGED <<disk, audit, today, df, filtered_df, spend_df, shown, err,
                   lastGood, memo>>

\* the user moves a slider, picks a question or presses the button: a new run
Interact ==
    /\ pc = "idle"
    /\ pc' = "load"
    /\ UNCHANGED <<disk, audit, uploaded_file, today, df, filtered_df, spend_df,
                   shown, err, lastGood, memo>>

\* midnight passes
Tick ==
    /\ pc = "idle"
    /\ today < FirstDay + MaxDays
    /\ today' = today + 1
    /\ UNCHANGED <<disk, audit, uploaded_file, pc, df, filtered_df, spend_df,
                   shown, err, lastGood, memo>>

Next ==
    \/ Load
    \/ FeatureEngineering
    \/ DatasetTab
    \/ CustomerTab
    \/ SpendingTab
    \/ CampaignsTab
    \/ ChatbotTab
    \/ ScriptEnd
    \/ Upload
    \/ RemoveUpload
    \/ Interact
    \/ Tick

\* the first run of a fresh session, nothing uploaded
InitWith(folder, history) ==
    /\ disk = folder
    /\ audit = history
    /\ uploaded_file = <<>>
    /\ today = FirstDay
    /\ pc = "load"
    /\ df = Unbound
    /\ filtered_df = Unbound
    /\ spend_df = Unbound
    /\ shown = Blank
    /\ err = NoError
    /\ lastGood = Unbound
    /\ memo = NoMemo

Init == InitWith("main", FALSE)
InitDerive == InitWith("derive", FALSE)
InitHistory == InitWith("history", TRUE)

Spec == Init /\ [][Next]_vars
SpecDerive == InitDerive /\ [][Next]_vars
SpecHistory == InitHistory /\ [][Next]_vars

----------------------------------------------------------------------------
(* Properties. *)

TabStages == {"tab1", "tab2", "tab3", "tab4", "tab5"}

\* the rows of t cut down to the columns cols
Restricted(t, cols) ==
    [i \in DOMAIN t.rows |-> [c \in cols |-> t.rows[i][c]]]

\* the KPI values the specification prescribes on an empty subset: count 0,
\* mean N/A, rate 0.00% (Customer); sum 0, mean N/A (Spending)
DegradedCustomerKpis == <<0, NaN, 0>>
DegradedSpendingKpis == <<0, NaN>>

\* C1: whenever the age filter or the Income filter selects no row, the tab's
\* KPIs do not raise and show the degraded values (count 0, mean N/A, rate
\* 0.00%, sum 0).
C1_EmptySubsetDegrades ==
    /\ (filtered_df.bound /\ filtered_df.rows = <<>>)
          => /\ ~(pc = "error" /\ err.line = 87)
             /\ (shown.tab = "Customer" => shown.kpi = DegradedCustomerKpis)
    /\ (spend_df.bound /\ spend_df.rows = <<>>)
          => /\ ~(pc = "error" /\ err.line = 122)
             /\ (shown.tab = "Spending" => shown.kpi = DegradedSpendingKpis)

\* C2: once the derived columns are in place, no tab rendering and no chatbot
\* question changes the Table: its columns and cells are the same after the
\* step as before it.
C2_TableFrozenAfterDerivation ==
    [][(pc \in TabStages /\ pc' # "idle") => df' = df]_vars

\* C3: when a load attempt fails (no header, a missing column, an unparseable
\* join date), the Table loaded and derived before it is still the current
\* Table, whole.
C3_FailedLoadKeepsPreviousTable ==
    (pc = "error" /\ err.line \in {43, 59, 61, 62} /\ lastGood.bound)
        => df = lastGood

\* C4: filtering a column by the range from its minimum to its maximum, as the
\* slider computes them, returns every row of the Table (age on the Customer
\* tab, Income on the Spending tab).
C4_FullRangeKeepsEveryRow ==
    /\ (shown.tab = "Customer"
          /\ shown.range = <<SetMin(Range(DropNaN(Column(df, "age")))),
                             SetMax(Range(DropNaN(Column(df, "age"))))>>)
          => filtered_df.rows = df.rows
    /\ (shown.tab = "Spending"
          /\ shown.range =
               <<IntOfRatio(SetMin(Range(DropNaN(Column(df, "Income")))), IncomeScale),
                 IntOfRatio(SetMax(Range(DropNaN(Column(df, "Income")))), IncomeScale)>>)
          => Restricted(spend_df, df.cols) = df.rows

\* C5: a chatbot question asked again on the identical Table gets the
\* identical answer, whenever it is asked and whatever was asked in between.
C5_SameQuestionSameAnswer ==
    [][(pc = "tab5" /\ shown'.tab = "Chatbot" /\ shown'.pressed
          /\ memo.set /\ memo.table = df /\ memo.question = shown'.question)
        => shown'.answer = memo.answer]_vars

\* C6: a run loads, then derives, then aggregates: feature engineering works
\* on the table just read, and every tab reads a Table that holds the raw
\* cells of the file loaded in this run and the four derived columns computed
\* from those cells; no subset exists before the derivation is done.
C6_DerivedBeforeAggregation ==
    /\ pc = "derive" => df = Table(CurrentFile.cols, CurrentFile.rows)
    /\ pc \in {"load", "derive"} => ~filtered_df.bound /\ ~spend_df.bound
    /\ (pc \in TabStages \cup {"done"} \/ (pc = "error" /\ err.line >= 82))
          => /\ df.bound
             /\ DerivedCols \subseteq df.cols
             /\ Restricted(df, CurrentFile.cols) = CurrentFile.rows
             /\ \A i \in DOMAIN df.rows :
                   LET raw == CurrentFile.rows[i]
                       row == df.rows[i]
                   IN  /\ row["Join_Year"] = IsoYear(raw["Dt_Customer"])
                       /\ row["Join_Month"] = IsoMonth(raw["Dt_Customer"])
                       /\ row["Total_Spend"] =
                            raw["MntWines"] + raw["MntFruits"]
                              + raw["MntMeatProducts"] + raw["MntFishProducts"]
                              + raw["MntSweetProducts"] + raw["MntGoldProds"]
                       /\ row["Campaign_Accepted_Count"] =
                            raw["AcceptedCmp1"] + raw["AcceptedCmp2"]
                              + raw["AcceptedCmp3"] + raw["AcceptedCmp4"]
                              + raw["AcceptedCmp5"]

\* an uploaded replacement file, not the default one, has been loaded and
\* derived, and the Customer tab has aggregated over it
C6_Witness ==
    /\ pc = "tab3"
    /\ uploaded_file # <<>>
    /\ CurrentFile # clean_data
    /\ shown.tab = "Customer"
    /\ Len(filtered_df.rows) >= 2

\* C7: in every row of a loaded Table, Campaign_Accepted_Count is in 0..5 and
\* is the number of the five campaign flags that are 1.
C7_CampaignCountIsFlagCount ==
    (df.bound /\ "Campaign_Accepted_Count" \in df.cols)
        => \A i \in DOMAIN df.rows :
              LET row == df.rows[i] IN
              /\ row["Campaign_Accepted_Count"] \in 0..5
              /\ row["Campaign_Accepted_Count"] =
                    Cardinality({c \in {"AcceptedCmp1", "AcceptedCmp2", "AcceptedCmp3",
                                        "AcceptedCmp4", "AcceptedCmp5"} : row[c] = 1})

\* a derived row with flags [1,0,1,0,0] and count 2, beside a row with the
\* fifth flag alone
C7_Witness ==
    /\ pc = "tab1"
    /\ \E i \in DOMAIN df.rows :
          /\ [k \in 1..5 |-> df.rows[i][cmp_cols[k]]] = <<1, 0, 1, 0, 0>>
          /\ df.rows[i]["Campaign_Accepted_Count"] = 2
    /\ \E i \in DOMAIN df.rows :
          /\ [k \in 1..5 |-> df.rows[i][cmp_cols[k]]] = <<0, 0, 0, 0, 1>>
          /\ df.rows[i]["Campaign_Accepted_Count"] = 1

\* C8: each row's Total_Spend is the sum of its six product fields, and over
\* the whole Table and over the Spending tab's subset the total of
\* Total_Spend equals the total of the six per-column totals.
C8_TotalSpendIsSumOfProducts ==
    /\ (df.bound /\ "Total_Spend" \in df.cols)
          => /\ \A i \in DOMAIN df.rows :
                   LET row == df.rows[i] IN
                   row["Total_Spend"] =
                       row["MntWines"] + row["MntFruits"] + row["MntMeatProducts"]
                         + row["MntFishProducts"] + row["MntSweetProducts"]
                         + row["MntGoldProds"]
             /\ ColSum(df, "Total_Spend")
                   = SumSeq(ColumnTotals(df, product_cols).values)
    /\ shown.tab = "Spending" => shown.kpi[1] = SumSeq(shown.totals.values)

\* the Spending tab has totalled two rows with different spends, one of them
\* the row (100, 10, 20, 5, 5, 10) whose Total_Spend is 150
C8_Witness ==
    /\ shown.tab = "Spending"
    /\ Len(spend_df.rows) = 2
    /\ spend_df.rows[1]["Total_Spend"] = 150
    /\ spend_df.rows[2]["Total_Spend"] \notin {0, 150}
    /\ shown.kpi[1] = 150 + spend_df.rows[2]["Total_Spend"]

\* C9: the spend-over-time table has one entry for each (Join_Year,
\* Join_Month) pair found in the subset and none for any other pair, each
\* entry holds the sum of Total_Spend of the rows with its pair, and the
\* entries are in chronological order.
C9_SpendOverTimeGroups ==
    shown.tab = "Spending" =>
        LET g == shown.time_df
            rows == spend_df.rows
            Has(i, k) == /\ rows[i]["Join_Year"] = g[k].Join_Year
                         /\ rows[i]["Join_Month"] = g[k].Join_Month
        IN  /\ \A i \in DOMAIN rows : \E k \in DOMAIN g : Has(i, k)
            /\ \A k \in DOMAIN g : \E i \in DOMAIN rows : Has(i, k)
            /\ \A k \in DOMAIN g :
                  g[k].Total_Spend =
                     SumSeq([i \in DOMAIN rows |->
                                IF Has(i, k) THEN rows[i]["Total_Spend"] ELSE 0])
            /\ \A k \in DOMAIN g : k > 1 =>
                  \/ g[k - 1].Join_Year < g[k].Join_Year
                  \/ /\ g[k - 1].Join_Year = g[k].Join_Year
                     /\ g[k - 1].Join_Month < g[k].Join_Month

\* three rows given as 2021-03, 2020-12, 2021-03 are grouped into 2020-12 ->
\* 150 and 2021-03 -> 100, with nothing for the months between
C9_Witness ==
    /\ shown.tab = "Spending"
    /\ Len(spend_df.rows) = 3
    /\ spend_df.rows[1]["Join_Month"] = 3
    /\ Len(shown.time_df) = 2
    /\ shown.time_df[1].Join_Year = 2020 /\ shown.time_df[1].Join_Month = 12
    /\ shown.time_df[1].Total_Spend = 150
    /\ shown.time_df[2].Join_Year = 2021 /\ shown.time_df[2].Join_Month = 3
    /\ shown.time_df[2].Total_Spend = 100

\* the chatbot has answered the most-common-age question
ModeAnswered ==
    shown.tab = "Chatbot" /\ shown.pressed /\ shown.question = Questions[1]

AgeFrequency(v) ==
    Cardinality({i \in DOMAIN df.rows : df.rows[i]["age"] = v})

\* C10: the most common age the chatbot reports occurs at least as often as
\* every other age, and no age that occurs as often is lower, in whatever
\* order the rows are.
C10_ModeIsLowestMostFrequent ==
    ModeAnswered =>
        LET ages == {df.rows[i]["age"] : i \in DOMAIN df.rows}
            a == shown.answer.nums[1]
        IN  /\ a \in ages
            /\ \A v \in ages : AgeFrequency(a) >= AgeFrequency(v)
            /\ \A v \in ages : AgeFrequency(v) = AgeFrequency(a) => a <= v

\* two ages tie, the higher one comes first in the file, the lower is reported
C10_Witness ==
    /\ ModeAnswered
    /\ Len(df.rows) = 3
    /\ df.rows[1]["age"] = 40
    /\ AgeFrequency(40) = 1 /\ AgeFrequency(25) = 1 /\ AgeFrequency(33) = 1
    /\ shown.answer.nums = <<25>>

====
